---- MODULE Spec2Model ----
(***************************************************************************)
(* A model of pngme: the chunk type code (chunk_type.rs), the chunk codec  *)
(* (chunk.rs), the Png container the commands use, and the encode / decode *)
(* / remove commands (commands.rs).                                        *)
(*                                                                         *)
(* Representation.  A byte is a number in 0..255, a byte slice / Vec<u8> / *)
(* [u8; 4] a sequence of bytes, a &str the sequence of its UTF-8 bytes.    *)
(* A u32 is a record [hi, lo] of its two 16-bit halves, so that all of its *)
(* 2^32 values are representable and its arithmetic wraps where Rust's     *)
(* does.  A call's outcome is Ok(v), Err(message) or Panic(message): a     *)
(* panic aborts the program.                                               *)
(***************************************************************************)
EXTENDS Integers, Sequences, FiniteSets

VARIABLES
    pc,      \* name of the operation that ran last
    arg,     \* the input that operation was called with
    ret,     \* its outcome: Ok / Err / Panic
    ctype,   \* the ChunkType value the caller holds, or NoValue
    chunk,   \* the Chunk value the caller holds, or NoValue
    buf,     \* the byte slice the caller holds
    png,     \* the Png container: its chunks, in file order
    disk     \* the file system: path -> file contents, or NoFile

vars == <<pc, arg, ret, ctype, chunk, buf, png, disk>>

Ok(v) == [tag |-> "Ok", val |-> v]
Err(m) == [tag |-> "Err", val |-> m]
Panic(m) == [tag |-> "Panic", val |-> m]
Unit == <<>>
NoValue == [none |-> TRUE]
NoRet == [tag |-> "None", val |-> <<>>]

(***************************************************************************)
(* Bounds of the model.                                                    *)
(***************************************************************************)
MaxData == 2        \* longest payload drawn for a chunk
MaxTrail == 2       \* most bytes drawn to follow a chunk in a buffer
MaxChunks == 3      \* most chunks in a container

(***************************************************************************)
(* Let(x, F): F applied to the value of x, with x evaluated once.          *)
(***************************************************************************)
Let(x, F(_)) == CHOOSE r \in { F(v) : v \in {x} } : TRUE

(***************************************************************************)
(* Slices.  value[a..b] of Rust, 0-based and half-open; the caller checks  *)
(* a <= b <= len first, where Rust would panic.                            *)
(***************************************************************************)
Slice(value, a, b) == SubSeq(value, a + 1, b)

(***************************************************************************)
(* Range::contains of a half-open range lo..hi.                            *)
(***************************************************************************)
RangeContains(lo, hi, byte) == lo <= byte /\ byte < hi

is_ascii_uppercase(b) == 65 <= b /\ b <= 90
is_ascii_lowercase(b) == 97 <= b /\ b <= 122
is_ascii(s) == \A i \in 1..Len(s) : s[i] <= 127

(***************************************************************************)
(* std::str::from_utf8: whether a byte sequence is well-formed UTF-8.      *)
(***************************************************************************)
IsCont(b) == 128 <= b /\ b <= 191

RECURSIVE Utf8From(_, _)
Utf8From(s, i) ==
    IF i > Len(s) THEN TRUE
    ELSE LET b == s[i]
             has(k) == i + k <= Len(s)
         IN  IF b <= 127 THEN Utf8From(s, i + 1)
             ELSE IF 194 <= b /\ b <= 223
                  THEN has(1) /\ IsCont(s[i + 1]) /\ Utf8From(s, i + 2)
             ELSE IF 224 <= b /\ b <= 239
                  THEN /\ has(2)
                       /\ IF b = 224 THEN 160 <= s[i + 1] /\ s[i + 1] <= 191
                          ELSE IF b = 237 THEN 128 <= s[i + 1] /\ s[i + 1] <= 159
                          ELSE IsCont(s[i + 1])
                       /\ IsCont(s[i + 2])
                       /\ Utf8From(s, i + 3)
             ELSE IF 240 <= b /\ b <= 244
                  THEN /\ has(3)
                       /\ IF b = 240 THEN 144 <= s[i + 1] /\ s[i + 1] <= 191
                          ELSE IF b = 244 THEN 128 <= s[i + 1] /\ s[i + 1] <= 143
                          ELSE IsCont(s[i + 1])
                       /\ IsCont(s[i + 2])
                       /\ IsCont(s[i + 3])
                       /\ Utf8From(s, i + 4)
             ELSE FALSE

from_utf8(s) == IF Utf8From(s, 1) THEN Ok(s) ELSE Err("Utf8Error")

(***************************************************************************)
(* chunk_type.rs                                                           *)
(***************************************************************************)
ChunkType(value) == [chunk_type |-> value]

RECURSIVE LettersFrom(_, _)
LettersFrom(value, i) ==
    IF i > Len(value) THEN TRUE
    ELSE IF ~RangeContains(65, 91, value[i]) /\ ~RangeContains(97, 123, value[i])
         THEN FALSE
         ELSE LettersFrom(value, i + 1)

ChunkType_try_from(value) ==
    IF Len(value) # 4
    THEN Err("ChunkType only accepts an array of 4 elements")
    ELSE IF ~LettersFrom(value, 1)
    THEN Err("ChunkType only accepts bytes with the range(65 - 90) and (97 - 122)")
    ELSE Ok(ChunkType(value))

\* from_str as it would be without its loop over the bytes
from_str_ascii_only(s) ==
    IF Len(s) # 4
    THEN Err("ChunkType can only take 4 characters")
    ELSE IF ~is_ascii(s)
    THEN Err("ChunkType takes ASCII characters only")
    ELSE Ok(ChunkType(s))

from_str(s) ==
    IF Len(s) # 4
    THEN Err("ChunkType can only take 4 characters")
    ELSE IF ~is_ascii(s)
    THEN Err("ChunkType takes ASCII characters only")
    ELSE IF ~LettersFrom(s, 1)
    THEN Err("ChunkType only accepts bytes with the range(65 - 90) and (97 - 122)")
    ELSE Ok(ChunkType(s))

bytes(self) == self.chunk_type

is_critical(self) == is_ascii_uppercase(self.chunk_type[1])

to_string(self) ==
    LET r == from_utf8(self.chunk_type)
    IN  IF r.tag = "Ok" THEN Ok(r.val) ELSE Panic("Invalid utf-8")

is_public(self) == is_ascii_uppercase(self.chunk_type[2])

is_reserved_bit_valid(self) == is_ascii_uppercase(self.chunk_type[3])

is_safe_to_copy(self) == is_ascii_lowercase(self.chunk_type[4])

is_valid(self) ==
    LET result == { i \in 1..4 :
                      /\ ~RangeContains(67, 91, self.chunk_type[i])
                      /\ ~RangeContains(97, 123, self.chunk_type[i]) }
        invalid_byte == result # {}
    IN  is_reserved_bit_valid(self) /\ ~invalid_byte

(***************************************************************************)
(* u32: to_be_bytes / from_be_bytes, and the conversions the codec uses.   *)
(***************************************************************************)
U32(n) == [hi |-> n \div 65536, lo |-> n % 65536]

from_be_bytes(b) == [hi |-> b[1] * 256 + b[2], lo |-> b[3] * 256 + b[4]]

to_be_bytes(x) == <<x.hi \div 256, x.hi % 256, x.lo \div 256, x.lo % 256>>

(***************************************************************************)
(* 8 + length on u32.  wrapped is the sum modulo 2^32, overflow whether    *)
(* the true sum does not fit.                                              *)
(***************************************************************************)
Add8(length) ==
    LET lo == length.lo + 8
        hi == length.hi + (lo \div 65536)
    IN  [overflow |-> hi >= 65536,
         wrapped |-> [hi |-> hi % 65536, lo |-> lo % 65536]]

(***************************************************************************)
(* Crc::<u32>::new(&CRC_32_ISO_HDLC).checksum: the reflected CRC-32 with   *)
(* polynomial 0xEDB88320, initial value and final xor 0xFFFFFFFF.          *)
(***************************************************************************)
\* bitwise exclusive or: of two bits' sequences, low bit first
RECURSIVE XorBits(_, _)
XorBits(a, b) ==
    IF a = 0 THEN b
    ELSE IF b = 0 THEN a
    ELSE ((a + b) % 2) + 2 * XorBits(a \div 2, b \div 2)

\* the same, tabulated for 4-bit operands and applied 4 bits at a time
XorNibble == [a \in 0..15 |-> [b \in 0..15 |-> XorBits(a, b)]]

Xor8(a, b) == XorNibble[a \div 16][b \div 16] * 16 + XorNibble[a % 16][b % 16]

Xor(a, b) == Xor8(a \div 256, b \div 256) * 256 + Xor8(a % 256, b % 256)

XorU32(x, y) == [hi |-> Xor(x.hi, y.hi), lo |-> Xor(x.lo, y.lo)]

ShiftRight1(x) == [hi |-> x.hi \div 2, lo |-> (x.lo \div 2) + (x.hi % 2) * 32768]

ShiftRight8(x) == [hi |-> x.hi \div 256, lo |-> (x.lo \div 256) + (x.hi % 256) * 256]

CRC_32_ISO_HDLC == [poly |-> [hi |-> 60856, lo |-> 33568],
                    init |-> [hi |-> 65535, lo |-> 65535],
                    xorout |-> [hi |-> 65535, lo |-> 65535]]

\* one turn of the bit loop
Shift(c) ==
    IF c.lo % 2 = 1
    THEN XorU32(ShiftRight1(c), CRC_32_ISO_HDLC.poly)
    ELSE ShiftRight1(c)

\* the crate's lookup table: each byte put through the bit loop 8 times
CrcTable == [byte \in 0..255 |->
               Shift(Shift(Shift(Shift(Shift(Shift(Shift(Shift(U32(byte)))))))))]

\* the byte loop from index i on
RECURSIVE CrcUpdate(_, _, _)
CrcUpdate(c, s, i) ==
    IF i > Len(s) THEN c
    ELSE Let(XorU32(CrcTable[Xor8(c.lo % 256, s[i])], ShiftRight8(c)),
             LAMBDA x : CrcUpdate(x, s, i + 1))

checksum(s) ==
    Let(s, LAMBDA data : XorU32(CrcUpdate(CRC_32_ISO_HDLC.init, data, 1), CRC_32_ISO_HDLC.xorout))

(***************************************************************************)
(* chunk.rs                                                                *)
(***************************************************************************)
Chunk(length, chunk_type, chunk_data, crc) ==
    [length |-> length, chunk_type |-> chunk_type,
     chunk_data |-> chunk_data, crc |-> crc]

\* try_from as it would be with the checksum taken over the payload alone
Chunk_try_from_payload_crc(value) ==
    IF Len(value) < 8 THEN Panic("range end index out of range for slice")
    ELSE
    LET length == from_be_bytes(Slice(value, 0, 4))
        sum == Add8(length)
    IN
    IF sum.overflow \/ sum.wrapped.hi > 0 \/ sum.wrapped.lo > Len(value)
    THEN Panic("range end index out of range for slice")
    ELSE
    LET end == sum.wrapped.lo
        crc == from_be_bytes(Slice(value, Len(value) - 4, Len(value)))
    IN
    IF crc # checksum(Slice(value, 8, end))
    THEN Err("Invalid crc (Cyclic Redundancy Check)")
    ELSE Ok(Chunk(length, Slice(value, 4, 8), Slice(value, 8, end), crc))

(***************************************************************************)
(* impl TryFrom<&[u8]> for Chunk.  Every slice expression panics when its  *)
(* range does not lie in the slice.  8 + length that overflows u32 panics  *)
(* in a build with overflow checks and wraps to a value below 8 in one     *)
(* without, where value[8..end] then panics: a panic in either build.      *)
(***************************************************************************)
Chunk_try_from(value) ==
    IF Len(value) < 4 THEN Panic("range end index 4 out of range for slice")
    ELSE
    LET length == from_be_bytes(Slice(value, 0, 4)) IN
    IF Len(value) < 8 THEN Panic("range end index 8 out of range for slice")
    ELSE
    LET chunk_type == Slice(value, 4, 8)
        sum == Add8(length)
    IN
    IF sum.overflow THEN Panic("attempt to add with overflow, or slice index starts at 8 but ends before it")
    ELSE IF sum.wrapped.hi > 0 \/ sum.wrapped.lo > Len(value)
    THEN Panic("range end index out of range for slice")
    ELSE
    LET end == sum.wrapped.lo
        chunk_data == Slice(value, 8, end)
        chunk_length == Len(value)
        start == chunk_length - 4
        crc_bytes == Slice(value, start, chunk_length)
        crc == from_be_bytes(crc_bytes)
        correct_crc == checksum(Slice(value, 4, end))
    IN
    IF crc # correct_crc
    THEN Err("Invalid crc (Cyclic Redundancy Check)")
    ELSE Ok(Chunk(length, chunk_type, chunk_data, crc))

Chunk_new(chunk_type, data) ==
    LET length == U32(Len(data))
        new_data == bytes(chunk_type) \o data
        crc == checksum(new_data)
    IN  Chunk(length, bytes(chunk_type), data, crc)

length(self) == self.length

crc(self) == self.crc

chunk_type(self) ==
    LET r == ChunkType_try_from(self.chunk_type)
    IN  IF r.tag = "Ok" THEN Ok(r.val)
        ELSE Panic("called Result::unwrap on an Err value")

data_as_string(self) ==
    LET r == from_utf8(self.chunk_data)
    IN  IF r.tag = "Ok" THEN Ok(r.val) ELSE Panic("Invalid UTF-8")

\* as_bytes as it would be with the length written low byte first
as_bytes_le(self) ==
    <<self.length.lo % 256, self.length.lo \div 256, self.length.hi % 256, self.length.hi \div 256>>
        \o self.chunk_type \o self.chunk_data \o to_be_bytes(self.crc)

as_bytes(self) ==
    to_be_bytes(self.length) \o self.chunk_type \o self.chunk_data \o to_be_bytes(self.crc)

(***************************************************************************)
(* The state before any call.                                              *)
(***************************************************************************)
NoDisk == [none |-> TRUE]

Init ==
    /\ pc = "start"
    /\ arg = <<>>
    /\ ret = NoRet
    /\ ctype = NoValue
    /\ chunk = NoValue
    /\ buf = <<>>
    /\ png = <<>>
    /\ disk = NoDisk

(***************************************************************************)
(* Type codes: the inputs drawn, and one action per operation of           *)
(* ChunkType.  A constructor runs first; the accessors then run on the     *)
(* value it returned.                                                      *)
(***************************************************************************)
RuSt == <<82, 117, 83, 116>>

\* the bytes around the ends of A-Z and a-z, a digit, and a non-ASCII pair
EdgeBytes == {49, 64, 65, 66, 67, 90, 91, 96, 97, 122, 123}

TypeArrays ==
    { <<a, b, c, d>> : a \in {65, 116}, b \in {66, 117}, c \in {67, 83, 115}, d \in {84, 116} }
    \cup { [RuSt EXCEPT ![i] = e] : i \in 1..4, e \in EdgeBytes }
    \cup { <<0, 0, 0, 0>>, <<255, 82, 83, 116>> }

TypeStrs ==
    { v \in TypeArrays : Utf8From(v, 1) }
    \cup { SubSeq(RuSt, 1, n) : n \in 0..3 }
    \cup { RuSt \o <<88>>, <<195, 169, 83, 116>>, <<82, 195, 169, 116>>,
           <<195, 169, 83>>, <<82, 117, 83, 195, 169>> }

TypeTryFrom ==
    /\ pc = "start"
    /\ \E value \in TypeArrays :
          /\ arg' = value
          /\ ret' = ChunkType_try_from(value)
    /\ ctype' = IF ret'.tag = "Ok" THEN ret'.val ELSE NoValue
    /\ pc' = "ChunkType::try_from"
    /\ UNCHANGED <<chunk, buf, png, disk>>

TypeFromStr ==
    /\ pc = "start"
    /\ \E s \in TypeStrs :
          /\ arg' = s
          /\ ret' = from_str(s)
    /\ ctype' = IF ret'.tag = "Ok" THEN ret'.val ELSE NoValue
    /\ pc' = "ChunkType::from_str"
    /\ UNCHANGED <<chunk, buf, png, disk>>

TypeAccessor(name, result) ==
    /\ ctype # NoValue
    /\ pc' = name
    /\ ret' = result
    /\ UNCHANGED <<arg, ctype, chunk, buf, png, disk>>

TypeBytes == TypeAccessor("bytes", Ok(bytes(ctype)))
TypeToString == TypeAccessor("to_string", to_string(ctype))
TypeIsCritical == TypeAccessor("is_critical", Ok(is_critical(ctype)))
TypeIsPublic == TypeAccessor("is_public", Ok(is_public(ctype)))
TypeIsReservedBitValid == TypeAccessor("is_reserved_bit_valid", Ok(is_reserved_bit_valid(ctype)))
TypeIsSafeToCopy == TypeAccessor("is_safe_to_copy", Ok(is_safe_to_copy(ctype)))
TypeIsValid == TypeAccessor("is_valid", Ok(is_valid(ctype)))

NextType ==
    \/ TypeTryFrom
    \/ TypeFromStr
    \/ TypeBytes
    \/ TypeToString
    \/ TypeIsCritical
    \/ TypeIsPublic
    \/ TypeIsReservedBitValid
    \/ TypeIsSafeToCopy
    \/ TypeIsValid

SpecType == Init /\ [][NextType]_vars

(***************************************************************************)
(* Chunks: the inputs drawn, and one action per operation of Chunk.  The   *)
(* caller makes a chunk with Chunk::new or decodes one from a slice it     *)
(* received, runs the accessors on the chunk it holds, serializes it with  *)
(* as_bytes into buf and decodes buf again.                                *)
(***************************************************************************)
RECURSIVE SeqsUpTo(_, _)
SeqsUpTo(S, n) ==
    IF n = 0 THEN {<<>>}
    ELSE LET shorter == SeqsUpTo(S, n - 1)
         IN  shorter \cup { Append(q, x) : q \in shorter, x \in S }

\* "h", the two bytes of U+00E9, each of which alone is not UTF-8
DataBytes == {104, 195, 169}

Payloads == SeqsUpTo(DataBytes, MaxData)

NewTypes == { from_str(s).val : s \in { RuSt, <<114, 117, 83, 116>>, <<73, 69, 78, 68>> } }

\* declared lengths: each payload length, one more, and lengths near 2^32
LengthFields ==
    { to_be_bytes(U32(n)) : n \in 0..(MaxData + 1) }
    \cup { <<255, 255, 255, 255>>, <<0, 0, 1, 0>> }

\* type fields: four letters, and a digit among letters
TypeFields == { RuSt, <<82, 117, 49, 116>> }

\* the right checksum, and one that differs from it in its low bits
CrcFields(t, d) ==
    LET c == checksum(t \o d)
    IN  { to_be_bytes(c), to_be_bytes([c EXCEPT !.lo = Xor(c.lo, 3)]) }

Frames ==
    UNION { { l \o t \o d \o c : c \in CrcFields(t, d) } :
            l \in LengthFields, t \in TypeFields, d \in Payloads }

Trailers == SeqsUpTo({0}, MaxTrail)

Buffers ==
    { f \o x : f \in Frames, x \in Trailers }
    \cup UNION { { SubSeq(f, 1, k) : k \in 0..Len(f) } : f \in Frames }

ChunkNew ==
    /\ pc = "start"
    /\ \E t \in NewTypes, data \in Payloads :
          /\ arg' = data
          /\ ctype' = t
          /\ chunk' = Chunk_new(t, data)
    /\ ret' = Ok(chunk')
    /\ pc' = "Chunk::new"
    /\ UNCHANGED <<buf, png, disk>>

ChunkTryFrom ==
    /\ pc = "start"
    /\ \E value \in Buffers :
          /\ arg' = value
          /\ buf' = value
          /\ ret' = Chunk_try_from(value)
    /\ chunk' = IF ret'.tag = "Ok" THEN ret'.val ELSE NoValue
    /\ pc' = "Chunk::try_from"
    /\ UNCHANGED <<ctype, png, disk>>

ChunkAccessor(name, result) ==
    /\ chunk # NoValue
    /\ pc # "round_trip"
    /\ pc' = name
    /\ ret' = result
    /\ UNCHANGED <<arg, ctype, chunk, buf, png, disk>>

ChunkLength == ChunkAccessor("length", Ok(length(chunk)))
ChunkCrc == ChunkAccessor("crc", Ok(crc(chunk)))
ChunkChunkType == ChunkAccessor("chunk_type", chunk_type(chunk))
ChunkDataAsString == ChunkAccessor("data_as_string", data_as_string(chunk))

ChunkAsBytes ==
    /\ chunk # NoValue
    /\ pc # "round_trip"
    /\ pc' = "as_bytes"
    /\ buf' = as_bytes(chunk)
    /\ ret' = Ok(buf')
    /\ UNCHANGED <<arg, ctype, chunk, png, disk>>

\* Chunk::try_from(&chunk.as_bytes()): the chunk stays held, the copy is in ret
ChunkRoundTrip ==
    /\ pc = "as_bytes"
    /\ pc' = "round_trip"
    /\ ret' = Chunk_try_from(buf)
    /\ UNCHANGED <<arg, ctype, chunk, buf, png, disk>>

NextChunk ==
    \/ ChunkNew
    \/ ChunkTryFrom
    \/ ChunkLength
    \/ ChunkCrc
    \/ ChunkChunkType
    \/ ChunkDataAsString
    \/ ChunkAsBytes
    \/ ChunkRoundTrip

SpecChunk == Init /\ [][NextChunk]_vars

(***************************************************************************)
(* The Png container (png.rs): the file signature and the chunks in file   *)
(* order, with the operations the commands call.                           *)
(***************************************************************************)
STANDARD_HEADER == <<137, 80, 78, 71, 13, 10, 26, 10>>

\* whether a chunk's type code, as a string, is the string chunk_type
TypeMatches(c, chunk_type_str) == to_string(ChunkType(c.chunk_type)) = Ok(chunk_type_str)

RECURSIVE ParseChunks(_, _, _)
ParseChunks(value, offset, chunks) ==
    LET rest == Len(value) - offset IN
    IF rest = 0 THEN Ok(chunks)
    ELSE IF rest < 12 THEN Err("Truncated")
    ELSE
    Let(from_be_bytes(Slice(value, offset, offset + 4)), LAMBDA declared :
    IF declared.hi > 0 \/ declared.lo + 12 > rest THEN Err("Truncated")
    ELSE
    Let(Chunk_try_from(Slice(value, offset, offset + 12 + declared.lo)), LAMBDA r :
    IF r.tag # "Ok" THEN r
    ELSE ParseChunks(value, offset + 12 + declared.lo, Append(chunks, r.val))))

Png_try_from(value) ==
    Let(value, LAMBDA v :
    IF Len(v) < 8 \/ Slice(v, 0, 8) # STANDARD_HEADER
    THEN Err("BadSignature")
    ELSE ParseChunks(v, 8, <<>>))

RECURSIVE ChunksAsBytes(_, _)
ChunksAsBytes(chunks, i) ==
    IF i > Len(chunks) THEN <<>>
    ELSE as_bytes(chunks[i]) \o ChunksAsBytes(chunks, i + 1)

Png_as_bytes(chunks) == STANDARD_HEADER \o ChunksAsBytes(chunks, 1)

append_chunk(chunks, c) == Append(chunks, c)

\* Option<&Chunk>: Ok(chunk) stands for Some(chunk), NoRet for None
chunk_by_type(chunks, chunk_type_str) ==
    LET found == { i \in 1..Len(chunks) : TypeMatches(chunks[i], chunk_type_str) }
    IN  IF found = {} THEN NoRet
        ELSE Ok(chunks[CHOOSE i \in found : \A j \in found : i <= j])

\* remove_chunk as it would be if it took the last match
remove_chunk_last(chunks, chunk_type_str) ==
    LET found == { i \in 1..Len(chunks) : TypeMatches(chunks[i], chunk_type_str) }
    IN  IF found = {} THEN [ret |-> Err("NotFound"), chunks |-> chunks]
        ELSE LET k == CHOOSE i \in found : \A j \in found : i >= j
             IN  [ret |-> Ok(chunks[k]),
                  chunks |-> SubSeq(chunks, 1, k - 1) \o SubSeq(chunks, k + 1, Len(chunks))]

\* the outcome, and the chunks the container holds afterwards
remove_chunk(chunks, chunk_type_str) ==
    LET found == { i \in 1..Len(chunks) : TypeMatches(chunks[i], chunk_type_str) }
    IN  IF found = {} THEN [ret |-> Err("NotFound"), chunks |-> chunks]
        ELSE LET k == CHOOSE i \in found : \A j \in found : i <= j
             IN  [ret |-> Ok(chunks[k]),
                  chunks |-> SubSeq(chunks, 1, k - 1) \o SubSeq(chunks, k + 1, Len(chunks))]

(***************************************************************************)
(* The container's actions: append, lookup and removal, on a container     *)
(* that starts empty.  arg records the type code a call was given and the  *)
(* chunks the container held when it was called.                           *)
(***************************************************************************)
ruSt == <<114, 117, 83, 116>>

PngChunks ==
    { Chunk_new(from_str(s).val, d) : s \in { RuSt, ruSt }, d \in { <<>>, <<104>> } }

PngCodes == { RuSt, ruSt, <<122, 122, 90, 122>> }

PngAppend ==
    /\ Len(png) < MaxChunks
    /\ \E c \in PngChunks :
          /\ arg' = [chunk_type |-> c.chunk_type, chunks |-> png]
          /\ png' = append_chunk(png, c)
    /\ ret' = Ok(Unit)
    /\ pc' = "append_chunk"
    /\ UNCHANGED <<ctype, chunk, buf, disk>>

PngChunkByType ==
    /\ \E s \in PngCodes :
          /\ arg' = [chunk_type |-> s, chunks |-> png]
          /\ ret' = chunk_by_type(png, s)
    /\ pc' = "chunk_by_type"
    /\ UNCHANGED <<ctype, chunk, buf, png, disk>>

PngRemove ==
    /\ \E s \in PngCodes :
          \E r \in { remove_chunk(png, s) } :
              /\ arg' = [chunk_type |-> s, chunks |-> png]
              /\ ret' = r.ret
              /\ png' = r.chunks
    /\ pc' = "remove_chunk"
    /\ UNCHANGED <<ctype, chunk, buf, disk>>

NextPng ==
    \/ PngAppend
    \/ PngChunkByType
    \/ PngRemove

SpecPng == Init /\ [][NextPng]_vars

(***************************************************************************)
(* The file system the commands read and write.  A path is its stem and    *)
(* its extension ("" when it has none); a file is absent, or holds bytes.  *)
(* fs::write either replaces the file's contents or fails (the `denied'    *)
(* input) and leaves the file as it was.                                   *)
(***************************************************************************)
Path(stem, ext) == [stem |-> stem, ext |-> ext]

Absent == [exists |-> FALSE, data |-> <<>>]
File(data) == [exists |-> TRUE, data |-> data]

\* Path::extension
extension(path) == IF path.ext = "" THEN Err("None") ELSE Ok(path.ext)

fs_read(fs, path) ==
    IF fs[path].exists THEN Ok(fs[path].data)
    ELSE Err("No such file or directory (os error 2)")

fs_write(fs, path, contents, denied) ==
    IF denied
    THEN [ret |-> Err("Permission denied (os error 13)"), disk |-> fs]
    ELSE [ret |-> Ok(Unit), disk |-> [fs EXCEPT ![path] = File(contents)]]

(***************************************************************************)
(* commands.rs.  Each command returns its outcome and the file system it   *)
(* leaves.  output_file is Ok(path) for Some(path) and NoRet for None.     *)
(***************************************************************************)
\* encode as it would be with the parsed file copied to its target before the
\* type code is checked
encode_write_first(fs, file_path, chunk_type_str, message, output_file, denied) ==
    IF extension(file_path).tag # "Ok"
    THEN [ret |-> Panic("called Option::unwrap on a None value"), disk |-> fs]
    ELSE IF extension(file_path).val # "png"
    THEN [ret |-> Err("This program takes only PNG files"), disk |-> fs]
    ELSE
    Let(fs_read(fs, file_path), LAMBDA file :
    IF file.tag # "Ok" THEN [ret |-> file, disk |-> fs]
    ELSE
    Let(Png_try_from(file.val), LAMBDA parsed :
    IF parsed.tag # "Ok" THEN [ret |-> parsed, disk |-> fs]
    ELSE
    LET target == IF output_file.tag = "Ok" THEN output_file.val ELSE file_path IN
    Let(fs_write(fs, target, Png_as_bytes(parsed.val), denied), LAMBDA copied :
    Let(from_str(chunk_type_str), LAMBDA t :
    IF t.tag # "Ok" THEN [ret |-> t, disk |-> copied.disk]
    ELSE
    Let(append_chunk(parsed.val, Chunk_new(t.val, message)), LAMBDA appended :
    Let(fs_write(copied.disk, target, Png_as_bytes(appended), denied), LAMBDA written :
    [ret |-> Ok(Unit), disk |-> written.disk]))))))

encode(fs, file_path, chunk_type_str, message, output_file, denied) ==
    IF extension(file_path).tag # "Ok"
    THEN [ret |-> Panic("called Option::unwrap on a None value"), disk |-> fs]
    ELSE IF extension(file_path).val # "png"
    THEN [ret |-> Err("This program takes only PNG files"), disk |-> fs]
    ELSE
    Let(fs_read(fs, file_path), LAMBDA file :
    IF file.tag # "Ok" THEN [ret |-> file, disk |-> fs]
    ELSE
    Let(Png_try_from(file.val), LAMBDA parsed :
    IF parsed.tag # "Ok" THEN [ret |-> parsed, disk |-> fs]
    ELSE
    Let(from_str(chunk_type_str), LAMBDA t :
    IF t.tag # "Ok" THEN [ret |-> t, disk |-> fs]
    ELSE
    Let(append_chunk(parsed.val, Chunk_new(t.val, message)), LAMBDA appended :
    LET target == IF output_file.tag = "Ok" THEN output_file.val ELSE file_path IN
    Let(fs_write(fs, target, Png_as_bytes(appended), denied), LAMBDA written :
    \* let _ = fs::write(..): the write's own outcome is dropped
    [ret |-> Ok(Unit), disk |-> written.disk])))))

decode(fs, file_path, chunk_type_str) ==
    IF extension(file_path).tag # "Ok"
    THEN [ret |-> Panic("called Option::unwrap on a None value"), disk |-> fs]
    ELSE IF extension(file_path).val # "png"
    THEN [ret |-> Err("This program takes only PNG files"), disk |-> fs]
    ELSE
    Let(fs_read(fs, file_path), LAMBDA file :
    IF file.tag # "Ok" THEN [ret |-> file, disk |-> fs]
    ELSE
    Let(Png_try_from(file.val), LAMBDA parsed :
    IF parsed.tag # "Ok" THEN [ret |-> parsed, disk |-> fs]
    ELSE
    Let(chunk_by_type(parsed.val, chunk_type_str), LAMBDA found :
    IF found.tag = "Ok" /\ data_as_string(found.val).tag # "Ok"
    THEN [ret |-> Panic("called Result::unwrap on an Err value"), disk |-> fs]
    ELSE [ret |-> Ok(Unit), disk |-> fs])))

remove(fs, file_path, chunk_type_str, denied) ==
    IF extension(file_path).tag # "Ok"
    THEN [ret |-> Panic("called Option::unwrap on a None value"), disk |-> fs]
    ELSE IF extension(file_path).val # "png"
    THEN [ret |-> Err("This program takes only PNG files"), disk |-> fs]
    ELSE
    Let(fs_read(fs, file_path), LAMBDA file :
    IF file.tag # "Ok" THEN [ret |-> file, disk |-> fs]
    ELSE
    Let(Png_try_from(file.val), LAMBDA parsed :
    IF parsed.tag # "Ok" THEN [ret |-> parsed, disk |-> fs]
    ELSE
    Let(remove_chunk(parsed.val, chunk_type_str), LAMBDA removed :
    IF removed.ret.tag # "Ok" THEN [ret |-> removed.ret, disk |-> fs]
    ELSE
    Let(fs_write(fs, file_path, Png_as_bytes(removed.chunks), denied), LAMBDA written :
    IF written.ret.tag # "Ok" THEN [ret |-> written.ret, disk |-> written.disk]
    ELSE [ret |-> Ok(Unit), disk |-> written.disk]))))

(***************************************************************************)
(* The commands' actions: one run of the program per step, on a file       *)
(* system that holds a PNG file, a PNG file with a corrupted checksum, a   *)
(* text file and a file without extension.                                 *)
(***************************************************************************)
IEND == <<73, 69, 78, 68>>
Ru1t == <<82, 117, 49, 116>>

a_png == Path("a", "png")
out_png == Path("out", "png")
bad_png == Path("bad", "png")
notes_txt == Path("notes", "txt")
README == Path("README", "")

CmdPaths == { a_png, out_png, bad_png, notes_txt, README }
CmdTypes == { ruSt, Ru1t }
CmdMessages == { <<104, 105>> }

MinimalPng == Png_as_bytes(<<Chunk_new(from_str(IEND).val, <<>>)>>)

\* the largest file the commands are let to write: IEND and MaxChunks - 1 messages
FileCap == Len(MinimalPng) + (MaxChunks - 1) * 14

InitCmd ==
    /\ pc = "start"
    /\ arg = <<>>
    /\ ret = NoRet
    /\ ctype = NoValue
    /\ chunk = NoValue
    /\ buf = <<>>
    /\ png = <<>>
    /\ disk = [p \in CmdPaths |->
                 CASE p = a_png -> File(MinimalPng)
                   [] p = bad_png -> File([MinimalPng EXCEPT ![Len(MinimalPng)] = 0])
                   [] p = notes_txt -> File(<<104, 105>>)
                   [] p = README -> File(<<104, 105>>)
                   [] OTHER -> Absent]

CmdEncode ==
    /\ \E file_path \in CmdPaths, t \in CmdTypes, message \in CmdMessages,
          output_file \in { NoRet, Ok(out_png) }, denied \in BOOLEAN :
          \E r \in { encode(disk, file_path, t, message, output_file, denied) } :
              /\ \A p \in CmdPaths : Len(r.disk[p].data) <= FileCap
              /\ arg' = [file_path |-> file_path, chunk_type |-> t]
              /\ ret' = r.ret
              /\ disk' = r.disk
    /\ pc' = "encode"
    /\ UNCHANGED <<ctype, chunk, buf, png>>

CmdDecode ==
    /\ \E file_path \in CmdPaths, t \in CmdTypes :
          \E r \in { decode(disk, file_path, t) } :
              /\ arg' = [file_path |-> file_path, chunk_type |-> t]
              /\ ret' = r.ret
              /\ disk' = r.disk
    /\ pc' = "decode"
    /\ UNCHANGED <<ctype, chunk, buf, png>>

CmdRemove ==
    /\ \E file_path \in CmdPaths, t \in CmdTypes, denied \in BOOLEAN :
          \E r \in { remove(disk, file_path, t, denied) } :
              /\ arg' = [file_path |-> file_path, chunk_type |-> t]
              /\ ret' = r.ret
              /\ disk' = r.disk
    /\ pc' = "remove"
    /\ UNCHANGED <<ctype, chunk, buf, png>>

NextCmd ==
    \/ CmdEncode
    \/ CmdDecode
    \/ CmdRemove

SpecCmd == InitCmd /\ [][NextCmd]_vars

(***************************************************************************)
(* Properties.                                                             *)
(***************************************************************************)
IsLetter(b) == b \in 65..90 \/ b \in 97..122

\* the declared length of a buffer of at least 4 bytes is n
DeclaresLength(b, n) == b[1] = 0 /\ b[2] = 0 /\ b[3] * 256 + b[4] = n

\* the declared length of a buffer of at least 4 bytes is more than n
DeclaresMoreThan(b, n) == b[1] > 0 \/ b[2] > 0 \/ b[3] * 256 + b[4] > n

\* C1: a chunk serialized with as_bytes and decoded again with try_from
\* decodes successfully to a chunk with the same length, type code, data and
\* crc, and the decoded chunk serializes to the bytes it was decoded from.
C1_RoundTrip ==
    pc = "round_trip" =>
        /\ ret.tag = "Ok"
        /\ length(ret.val) = length(chunk)
        /\ ret.val.chunk_type = chunk.chunk_type
        /\ ret.val.chunk_data = chunk.chunk_data
        /\ crc(ret.val) = crc(chunk)
        /\ as_bytes(ret.val) = buf

C1_Witness ==
    /\ pc = "round_trip"
    /\ ctype = ChunkType(RuSt)
    /\ arg = <<195, 169>>
    /\ chunk = Chunk_new(ctype, arg)
    /\ Len(buf) = 14
    /\ ret = Ok(chunk)

\* C2: try_from on a truncated buffer (shorter than 12 bytes, or shorter than
\* 12 plus its declared length) returns Err: it neither returns Ok nor panics.
C2_TruncatedIsErr ==
    (/\ pc = "Chunk::try_from"
     /\ \/ Len(arg) < 12
        \/ DeclaresMoreThan(arg, Len(arg) - 12))
    => ret.tag = "Err"

\* C3: on a buffer of exactly 12 + L bytes, L its declared length, try_from
\* returns Err when the last 4 bytes differ from the CRC-32 of the type code
\* and payload and Ok when they are equal; and every chunk a decode returns
\* has crc equal to the checksum of its type code and data.
C3_CrcVerified ==
    pc = "Chunk::try_from" =>
        /\ (Len(arg) >= 12 /\ DeclaresLength(arg, Len(arg) - 12)) =>
              LET n == Len(arg)
                  stored == SubSeq(arg, n - 3, n)
                  computed == to_be_bytes(checksum(SubSeq(arg, 5, n - 4)))
              IN  IF stored = computed THEN ret.tag = "Ok" ELSE ret.tag = "Err"
        /\ ret.tag = "Ok" =>
              crc(ret.val) = checksum(ret.val.chunk_type \o ret.val.chunk_data)

C3_Witness ==
    /\ pc = "Chunk::try_from"
    /\ Len(arg) = 14
    /\ DeclaresLength(arg, 2)
    /\ SubSeq(arg, 11, 14) # to_be_bytes(checksum(SubSeq(arg, 5, 10)))
    /\ ret.tag = "Err"

\* C4: on a buffer that starts with a correctly framed and checksummed chunk
\* of declared length L, whatever bytes follow it, try_from succeeds with the
\* payload of bytes 8..8+L and the CRC of bytes 8+L..12+L.
C4_LeadingChunkDecoded ==
    \A L \in 0..MaxData :
        (/\ pc = "Chunk::try_from"
         /\ Len(arg) >= 12 + L
         /\ DeclaresLength(arg, L)
         /\ SubSeq(arg, 9 + L, 12 + L) = to_be_bytes(checksum(SubSeq(arg, 5, 8 + L))))
        => /\ ret.tag = "Ok"
           /\ ret.val.chunk_type = SubSeq(arg, 5, 8)
           /\ ret.val.chunk_data = SubSeq(arg, 9, 8 + L)
           /\ to_be_bytes(crc(ret.val)) = SubSeq(arg, 9 + L, 12 + L)

\* C5: is_valid() is true exactly when the third byte is an uppercase letter
\* and all four bytes are letters; so on a constructed type code it equals
\* is_reserved_bit_valid().
C5_IsValidIsReservedBit ==
    pc = "is_valid" =>
        /\ ret.val = (/\ bytes(ctype)[3] \in 65..90
                      /\ \A i \in 1..4 : IsLetter(bytes(ctype)[i]))
        /\ ret.val = is_reserved_bit_valid(ctype)

\* C6: try_from succeeds exactly on four letters; from_str succeeds exactly
\* on strings of 4 bytes that are all letters, and then returns what
\* try_from returns on the string's bytes; bytes() and to_string() of the
\* constructed type code return the input.
C6_ConstructorsAcceptLetters ==
    /\ pc = "ChunkType::try_from" =>
          (ret.tag = "Ok" <=> \A i \in 1..4 : IsLetter(arg[i]))
    /\ pc = "ChunkType::from_str" =>
          /\ ret.tag = "Ok" <=> (Len(arg) = 4 /\ \A i \in 1..Len(arg) : IsLetter(arg[i]))
          /\ ret.tag = "Ok" => ret = ChunkType_try_from(arg)
          /\ ret.tag \in {"Ok", "Err"}
    /\ pc = "bytes" => ret = Ok(arg)
    /\ pc = "to_string" => ret = Ok(arg)

C6_Witness ==
    /\ pc = "to_string"
    /\ arg = <<82, 117, 83, 90>>
    /\ ctype = from_str(arg).val
    /\ ret = Ok(arg)

\* C7: data_as_string() returns Ok with the payload as text when the payload
\* is valid UTF-8 and Err, without panicking, when it is not.
C7_InvalidTextIsErr ==
    pc = "data_as_string" =>
        IF Utf8From(chunk.chunk_data, 1)
        THEN ret = Ok(chunk.chunk_data)
        ELSE ret.tag = "Err"

\* C8: remove_chunk with a chunk of the given type in the container removes
\* and returns the first such chunk, the one chunk_by_type returns, and
\* leaves the other chunks in their order; with none it fails and leaves the
\* chunks unchanged.
C8_RemoveFirstMatch ==
    pc = "remove_chunk" =>
        LET before == arg.chunks
            matching == { i \in 1..Len(before) : before[i].chunk_type = arg.chunk_type }
        IN  IF matching = {}
            THEN ret.tag = "Err" /\ png = before
            ELSE \E k \in matching :
                    /\ \A j \in matching : k <= j
                    /\ ret = Ok(before[k])
                    /\ ret = chunk_by_type(before, arg.chunk_type)
                    /\ Len(png) = Len(before) - 1
                    /\ \A i \in 1..Len(png) :
                          png[i] = IF i < k THEN before[i] ELSE before[i + 1]

C8_Witness ==
    /\ pc = "remove_chunk"
    /\ Len(arg.chunks) = 3
    /\ arg.chunks[1].chunk_type # arg.chunk_type
    /\ arg.chunks[2].chunk_type = arg.chunk_type
    /\ arg.chunks[3].chunk_type = arg.chunk_type
    /\ arg.chunks[2] # arg.chunks[3]
    /\ ret = Ok(arg.chunks[2])
    /\ png = <<arg.chunks[1], arg.chunks[3]>>

\* C9: chunk_type() of a chunk that try_from decoded, whatever its four type
\* bytes, returns a type code with bytes 4..8 of the buffer and does not panic.
C9_AccessorTolerant ==
    (pc = "chunk_type" /\ ctype = NoValue) =>
        /\ ret.tag = "Ok"
        /\ bytes(ret.val) = SubSeq(buf, 5, 8)

\* C10: an encode or remove command that returns an error of one of its
\* steps before the write (extension check, file read, PNG parse, type-code
\* validation, chunk removal) has written no file.
WriteError(r) == r = fs_write(disk, a_png, <<>>, TRUE).ret

C10_FailedEditWritesNothing ==
    [][ (/\ pc' \in {"encode", "remove"}
         /\ ret'.tag = "Err"
         /\ ~WriteError(ret'))
        => disk' = disk ]_vars

C10_Witness ==
    /\ pc = "encode"
    /\ arg = [file_path |-> a_png, chunk_type |-> Ru1t]
    /\ ret = from_str(Ru1t)
    /\ ret.tag = "Err"
    /\ disk[out_png] = Absent

====
